---- MODULE Spec2Model ----
(***************************************************************************)
(* Model of VideoToSRTBot (src/app.py): the subtitle formatter             *)
(* (time_format, the timing refinement of transcribe_video, create_srt)    *)
(* and the conversation handlers registered by run().                      *)
(*                                                                         *)
(* A time value is an exact number of seconds  s + f / FracUnits, held as  *)
(* the record [s |-> whole seconds (floor), f |-> 0 .. FracUnits-1]: the   *)
(* fraction is counted in tenths of a microsecond, one decimal finer than  *)
(* the microsecond resolution of datetime.timedelta.                       *)
(* A string is a sequence of one-character strings.                        *)
(***************************************************************************)
EXTENDS Integers, Sequences, FiniteSets, TLC

VARIABLES
    fmtIn, fmtOut,        \* time_format: argument, returned string
    txtIn, txtOut,        \* text clean-up of create_srt: argument, result
    segIn, segOut,        \* timing refinement: segments before and after
    srtIn, srtFile,       \* create_srt: segments handed in, file written
    srtRet,               \* create_srt: value returned
    phase,                \* position of the formatter run
    conv,                 \* ConversationHandler: state per (chat, user)
    user_sessions,        \* self.user_sessions: language per user
    files,                \* files in self.upload_folder
    queue,                \* application.update_queue
    hv,                   \* frame of the handle_video call in progress
    nextId,               \* file ids drawn so far
    ended                 \* the handler call that has just ended, if any

fvars == <<fmtIn, fmtOut, txtIn, txtOut, segIn, segOut, srtIn, srtFile,
           srtRet, phase>>

bvars == <<conv, user_sessions, files, queue, hv, nextId, ended>>

vars == <<fvars, bvars>>

----------------------------------------------------------------------------
(* Numbers and strings *)

\* tenths of a microsecond in one second
FracUnits == 10 * 1000000

NoValue == <<"none">>

\* a list of segments not produced yet, and one that has been
Nothing == [some |-> FALSE]
Some(v) == [some |-> TRUE, val |-> v]

DigitChars == <<"0", "1", "2", "3", "4", "5", "6", "7", "8", "9">>

RECURSIVE DecStr(_)
\* str(n) for n >= 0
DecStr(n) ==
    IF n < 10 THEN <<DigitChars[n + 1]>>
    ELSE DecStr(n \div 10) \o <<DigitChars[(n % 10) + 1]>>

RECURSIVE ZeroPad(_, _)
\* format spec 0<w>d: zero-padded on the left to at least w characters
ZeroPad(str, w) == IF Len(str) >= w THEN str ELSE ZeroPad(<<"0">> \o str, w)

----------------------------------------------------------------------------
(* time_format *)

\* round(): to the nearest integer, ties to the even one
RoundHalfEven(num, den) ==
    LET q == num \div den
        r == num % den
    IN  IF 2 * r < den THEN q
        ELSE IF 2 * r > den THEN q + 1
        ELSE IF q % 2 = 0 THEN q ELSE q + 1

\* timedelta(seconds=t): t taken to the nearest microsecond, then normalised
\* to days, 0 <= seconds < 86400, 0 <= microseconds < 1000000
timedelta(t) ==
    LET us    == RoundHalfEven(t.f, 10)
        carry == us \div 1000000
        whole == t.s + carry
    IN  [days         |-> whole \div 86400,
         seconds      |-> whole % 86400,
         microseconds |-> us % 1000000]

\* a slip the millisecond field could suffer: rounded, not floored
time_format_rounded_ms(t) ==
    LET td           == timedelta(t)
        hours        == td.seconds \div 3600
        minutes      == (td.seconds % 3600) \div 60
        seconds      == td.seconds % 60
        milliseconds == (td.microseconds + 500) \div 1000
    IN  ZeroPad(DecStr(hours), 2) \o <<":">> \o
        ZeroPad(DecStr(minutes), 2) \o <<":">> \o
        ZeroPad(DecStr(seconds), 2) \o <<",">> \o
        ZeroPad(DecStr(milliseconds), 3)

time_format(t) ==
    LET td           == timedelta(t)
        hours        == td.seconds \div 3600
        minutes      == (td.seconds % 3600) \div 60
        seconds      == td.seconds % 60
        milliseconds == td.microseconds \div 1000
    IN  ZeroPad(DecStr(hours), 2) \o <<":">> \o
        ZeroPad(DecStr(minutes), 2) \o <<":">> \o
        ZeroPad(DecStr(seconds), 2) \o <<",">> \o
        ZeroPad(DecStr(milliseconds), 3)

----------------------------------------------------------------------------
(* Inputs of the time_format runs *)

MaxHours == 100

FmtMinutes == {0, 1, 59}
FmtSeconds == {0, 1, 59}
\* fractions of a second, in tenths of a microsecond
FmtFracs == {0, 4, 5, 6, 15, 9994, 9999, 10000, 2500000, 9989999, 9990000,
             9995000, 9999994, 9999995, 9999996, 9999999}

FmtTimes ==
    { [s |-> h * 3600 + m * 60 + sec, f |-> fr] :
        h \in 0..MaxHours, m \in FmtMinutes, sec \in FmtSeconds, fr \in FmtFracs }

\* the bot is not running
BotOff ==
    /\ conv = NoValue /\ user_sessions = NoValue /\ files = NoValue
    /\ queue = NoValue /\ hv = NoValue /\ nextId = 0 /\ ended = NoValue

FmtIdle ==
    /\ txtIn = NoValue /\ txtOut = NoValue
    /\ segIn = NoValue /\ segOut = NoValue
    /\ srtIn = NoValue /\ srtFile = NoValue /\ srtRet = NoValue
    /\ BotOff

FmtInit ==
    /\ fmtIn \in FmtTimes
    /\ fmtOut = NoValue
    /\ phase = "call"
    /\ FmtIdle

CallTimeFormat ==
    /\ phase = "call"
    /\ fmtOut' = time_format(fmtIn)
    /\ phase' = "returned"
    /\ UNCHANGED <<fmtIn, txtIn, txtOut, segIn, segOut, srtIn, srtFile, srtRet>>
    /\ UNCHANGED bvars

FmtNext == CallTimeFormat

SpecFmt == FmtInit /\ [][FmtNext]_vars

----------------------------------------------------------------------------
(* Text clean-up of create_srt *)

\* the one character U+2026 HORIZONTAL ELLIPSIS
Ellipsis == "U+2026"

IsSpace(c) == c \in {" ", "\n"}

RECURSIVE lstrip(_)
lstrip(str) ==
    IF str # <<>> /\ IsSpace(Head(str)) THEN lstrip(Tail(str)) ELSE str

RECURSIVE rstrip(_)
rstrip(str) ==
    IF str # <<>> /\ IsSpace(str[Len(str)])
    THEN rstrip(SubSeq(str, 1, Len(str) - 1))
    ELSE str

\* str.strip()
strip(str) == rstrip(lstrip(str))

StartsWith(str, old) == Len(str) >= Len(old) /\ SubSeq(str, 1, Len(old)) = old

RECURSIVE replace(_, _, _)
\* str.replace(old, new): every non-overlapping occurrence, left to right
replace(str, old, new) ==
    IF str = <<>> THEN <<>>
    ELSE IF StartsWith(str, old)
         THEN new \o replace(SubSeq(str, Len(old) + 1, Len(str)), old, new)
         ELSE <<Head(str)>> \o replace(Tail(str), old, new)

\* the two replacements in the other order
clean_text_double_first(text) ==
    replace(replace(strip(text), <<".", ".">>, <<".">>),
            <<".", ".", ".">>, <<Ellipsis>>)

\* the clean-up without its second replace
clean_text_ellipsis_only(text) ==
    replace(strip(text), <<".", ".", ".">>, <<Ellipsis>>)

\* segment['text'].strip(), then .replace('...', U+2026).replace('..', '.')
clean_text(text) ==
    replace(replace(strip(text), <<".", ".", ".">>, <<Ellipsis>>),
            <<".", ".">>, <<".">>)

MaxTextLen == 5

TextChars == {" ", "\n", ".", "a", Ellipsis}

RECURSIVE StringsUpTo(_)
StringsUpTo(n) ==
    IF n = 0 THEN {<<>>}
    ELSE LET shorter == StringsUpTo(n - 1)
         IN  shorter \cup { <<c>> \o str : c \in TextChars,
                                           str \in {x \in shorter : Len(x) = n - 1} }

HelloWorld ==
    <<"H","e","l","l","o",".",".",".","w","o","r","l","d",".",".">>

TextInputs == StringsUpTo(MaxTextLen) \cup {HelloWorld}

TxtInit ==
    /\ txtIn \in TextInputs
    /\ txtOut = NoValue
    /\ phase = "call"
    /\ fmtIn = NoValue /\ fmtOut = NoValue
    /\ segIn = NoValue /\ segOut = NoValue
    /\ srtIn = NoValue /\ srtFile = NoValue /\ srtRet = NoValue
    /\ BotOff

CleanText ==
    /\ phase = "call"
    /\ txtOut' = clean_text(txtIn)
    /\ phase' = "returned"
    /\ UNCHANGED <<fmtIn, fmtOut, txtIn, segIn, segOut, srtIn, srtFile, srtRet>>
    /\ UNCHANGED bvars

TxtNext == CleanText

SpecText == TxtInit /\ [][TxtNext]_vars

----------------------------------------------------------------------------
(* Timing refinement of transcribe_video, and create_srt *)

Zero == [s |-> 0, f |-> 0]

TLess(a, b) == a.s < b.s \/ (a.s = b.s /\ a.f < b.f)
TLeq(a, b)  == a = b \/ TLess(a, b)
PlusOne(a)  == [a EXCEPT !.s = @ + 1]

\* the comparison of line 87 written < for <=
Refine_strict(segment) ==
    LET s1 == IF TLess(segment.start, Zero)
              THEN [segment EXCEPT !.start = Zero] ELSE segment
    IN  IF TLess(s1.end, s1.start)
        THEN [s1 EXCEPT !.end = PlusOne(s1.start)] ELSE s1

\* a floor of one second on every duration
Refine_min_duration(segment) ==
    LET s1 == IF TLess(segment.start, Zero)
              THEN [segment EXCEPT !.start = Zero] ELSE segment
    IN  IF TLess(s1.end, PlusOne(s1.start))
        THEN [s1 EXCEPT !.end = PlusOne(s1.start)] ELSE s1

\* the clamp of line 85 left out
Refine_no_clamp(segment) ==
    IF TLeq(segment.end, segment.start)
    THEN [segment EXCEPT !.end = PlusOne(segment.start)] ELSE segment

\* the two tests of the loop body in the other order
Refine_end_first(segment) ==
    LET s1 == IF TLeq(segment.end, segment.start)
              THEN [segment EXCEPT !.end = PlusOne(segment.start)] ELSE segment
    IN  IF TLess(s1.start, Zero) THEN [s1 EXCEPT !.start = Zero] ELSE s1

\* body of the loop "Refine timing"
Refine(segment) ==
    LET s1 == IF TLess(segment.start, Zero)
              THEN [segment EXCEPT !.start = Zero] ELSE segment
    IN  IF TLeq(s1.end, s1.start)
        THEN [s1 EXCEPT !.end = PlusOne(s1.start)] ELSE s1

RefineAll(segments) == [k \in 1..Len(segments) |-> Refine(segments[k])]

NL == <<"\n">>
Arrow == <<" ", "-", "-", ">", " ">>

SrtRecord(i, segment) ==
    LET start_time == time_format(segment.start)
        end_time   == time_format(segment.end)
        text       == clean_text(segment.text)
    IN  DecStr(i) \o NL \o
        start_time \o Arrow \o end_time \o NL \o
        text \o NL \o NL

RECURSIVE WriteRecords(_, _)
\* for i, segment in enumerate(segments, i): the three writes
WriteRecords(segments, i) ==
    IF segments = <<>> THEN <<>>
    ELSE SrtRecord(i, Head(segments)) \o WriteRecords(Tail(segments), i + 1)

\* enumerate(segments) without its start argument
create_srt_from_zero(segments) == WriteRecords(segments, 0)

\* the content of the file create_srt leaves at output_path
create_srt(segments) == WriteRecords(segments, 1)

MaxSegs == 2

\* -1.5, 0, 0.5, 1 seconds
SegTimes == { [s |-> -2, f |-> 5000000], Zero,
              [s |-> 0, f |-> 5000000], [s |-> 1, f |-> 0] }

SegTexts == { <<"H", "i">>, <<" ", "a", ".", ".", ".", ".", ".", " ">> }

Segments == [start : SegTimes, end : SegTimes, text : SegTexts]

RECURSIVE SegLists(_)
SegLists(n) ==
    IF n = 0 THEN {<<>>}
    ELSE LET shorter == SegLists(n - 1)
         IN  shorter \cup { <<g>> \o l : g \in Segments,
                                         l \in {x \in shorter : Len(x) = n - 1} }

SrtInit ==
    /\ segIn \in SegLists(MaxSegs)
    /\ segOut = Nothing
    /\ srtIn = Nothing /\ srtFile = NoValue /\ srtRet = NoValue
    /\ phase = "segments"
    /\ fmtIn = NoValue /\ fmtOut = NoValue
    /\ txtIn = NoValue /\ txtOut = NoValue
    /\ BotOff

\* transcribe_video from "segments = result[...]" to its return
RefineTiming ==
    /\ phase = "segments"
    /\ segOut' = Some(RefineAll(segIn))
    /\ phase' = "refined"
    /\ UNCHANGED <<fmtIn, fmtOut, txtIn, txtOut, segIn, srtIn, srtFile, srtRet>>
    /\ UNCHANGED bvars

\* the output_path argument, the name of a file that does not exist yet
output_path == <<"o", "u", "t", ".", "s", "r", "t">>

\* a create_srt that builds the document and returns it, touching no file
CreateSrt_returns_document(segments) ==
    /\ srtIn' = Some(segments)
    /\ srtFile' = srtFile
    /\ srtRet' = create_srt(segments)
    /\ phase' = "written"
    /\ UNCHANGED <<fmtIn, fmtOut, txtIn, txtOut, segIn, segOut>>
    /\ UNCHANGED bvars

\* create_srt: open(output_path, 'w'), the writes, return output_path
CreateSrt(segments) ==
    /\ srtIn' = Some(segments)
    /\ srtFile' = create_srt(segments)
    /\ srtRet' = output_path
    /\ phase' = "written"
    /\ UNCHANGED <<fmtIn, fmtOut, txtIn, txtOut, segIn, segOut>>
    /\ UNCHANGED bvars

\* create_srt on what transcribe_video returned, as handle_video calls it
CreateSrtOfTranscription == phase = "refined" /\ CreateSrt(segOut.val)

\* create_srt called on segments that did not pass through transcribe_video
CreateSrtOfAnySegments == phase = "segments" /\ CreateSrt(segIn)

SrtNext ==
    \/ RefineTiming
    \/ CreateSrtOfTranscription
    \/ CreateSrtOfAnySegments

SpecSrt == SrtInit /\ [][SrtNext]_vars

----------------------------------------------------------------------------
(* The bot: the handlers, and the ConversationHandler that run() builds *)

Users == {"u1", "u2"}

\* the (chat, user) pairs a conversation is kept for: u1 in a private chat
\* and in a group chat, u2 in the group chat
ConvKeys == { <<"c1", "u1">>, <<"c2", "u1">>, <<"c2", "u2">> }

UserOf(key) == key[2]

END               == "END"
CHOOSING_LANGUAGE == "CHOOSING_LANGUAGE"
UPLOADING_VIDEO   == "UPLOADING_VIDEO"

LANGUAGES == {"en", "km"}

\* user_id not in self.user_sessions
Absent == "absent"

allowed_extensions ==
    { <<"m","p","4">>, <<"a","v","i">>, <<"m","o","v">>, <<"m","k","v">>,
      <<"w","m","v">>, <<"f","l","v">>, <<"w","e","b","m">>, <<"m","4","v">>,
      <<"m","p","g">>, <<"m","p","e","g">> }

RECURSIVE Contains(_, _)
\* sub in str
Contains(str, sub) ==
    IF Len(str) < Len(sub) THEN FALSE
    ELSE StartsWith(str, sub) \/ Contains(Tail(str), sub)

RECURSIVE AfterLastDot(_)
\* filename.rsplit('.', 1)[1], for a filename with a '.'
AfterLastDot(str) ==
    LET rest == Tail(str)
    IN  IF Contains(rest, <<".">>) THEN AfterLastDot(rest)
        ELSE IF Head(str) = "." THEN rest ELSE AfterLastDot(rest)

\* str.lower(), on the capitals that occur in the file names below
LowerChar(c) ==
    CASE c = "A" -> "a" [] c = "K" -> "k" [] c = "M" -> "m"
      [] c = "V" -> "v" [] OTHER -> c

lower(str) == [i \in 1..Len(str) |-> LowerChar(str[i])]

allowed_file(filename) ==
    /\ Contains(filename, <<".">>)
    /\ lower(AfterLastDot(filename)) \in allowed_extensions

FileSizeLimit == 50 * 1024 * 1024

\* lines 193-206: the name the file is stored and checked under
FileNameOf(file) ==
    LET filename == IF file.file_name = <<>> THEN <<"v","i","d","e","o">>
                    ELSE file.file_name
        mime     == file.mime_type
    IN  IF Contains(filename, <<".">>) THEN filename
        ELSE IF Contains(mime, <<"m","p","4">>) THEN filename \o <<".","m","p","4">>
        ELSE IF Contains(mime, <<"a","v","i">>) THEN filename \o <<".","a","v","i">>
        ELSE IF Contains(mime, <<"m","o","v">>) THEN filename \o <<".","m","o","v">>
        ELSE IF Contains(mime, <<"m","k","v">>) THEN filename \o <<".","m","k","v">>
        ELSE filename \o <<".","m","p","4">>

\* what a message carries as document or video
NoMedia == [media |-> "none", file_size |-> 0, file_name |-> <<>>, mime_type |-> <<>>]

VideoMime == <<"v","i","d","e","o","/","m","p","4">>

UploadShapes ==
    { [media |-> "document", file_size |-> 1024,
       file_name |-> <<"A",".","M","K","V">>, mime_type |-> VideoMime],
      [media |-> "video", file_size |-> FileSizeLimit,
       file_name |-> <<>>, mime_type |-> VideoMime],
      [media |-> "document", file_size |-> FileSizeLimit + 1,
       file_name |-> <<"a",".","m","p","4">>, mime_type |-> VideoMime],
      [media |-> "document", file_size |-> 1024,
       file_name |-> <<"a",".","t","x","t">>,
       mime_type |-> <<"t","e","x","t","/","p","l","a","i","n">>] }

\* the checks of lines 187 and 209
Acceptable(file) ==
    /\ ~(file.file_size > FileSizeLimit)
    /\ allowed_file(FileNameOf(file))

Texts == {"/convert", "/cancel", "/start", "hello"}
CallbackData == {"lang_en", "lang_km"}

Updates ==
    [type : {"message"}, key : ConvKeys, data : Texts, file : {NoMedia}]
      \cup [type : {"message"}, key : ConvKeys, data : {""}, file : UploadShapes]
      \cup [type : {"callback"}, key : ConvKeys, data : CallbackData, file : {NoMedia}]

\* query.data.split('_')[1]
LanguageOf(data) == IF data = "lang_en" THEN "en" ELSE "km"

IsCommand(u, name) == u.type = "message" /\ u.data = name

\* filters.Document.VIDEO | filters.Document.ALL | filters.VIDEO
IsUpload(u) == u.type = "message" /\ u.file.media \in {"document", "video"}

\* CallbackQueryHandler(..., pattern="^lang_")
IsLanguageChoice(u) == u.type = "callback" /\ u.data \in CallbackData

\* the ConversationHandler built without its fallbacks
HandlerFor_no_fallbacks(u) ==
    IF IsCommand(u, "/start") THEN "start"
    ELSE IF IsCommand(u, "/convert") THEN "convert_command"
    ELSE IF conv[u.key] = CHOOSING_LANGUAGE
         THEN IF IsLanguageChoice(u) THEN "language_callback" ELSE "none"
    ELSE IF conv[u.key] = UPLOADING_VIDEO
         THEN IF IsUpload(u) THEN "handle_video"
              ELSE IF IsCommand(u, "/cancel") THEN "cancel" ELSE "none"
    ELSE "none"

\* the callback the handlers added in run() select for update u: /start and
\* /help first, then the ConversationHandler: an entry point (allow_reentry),
\* else the handlers of the key's state, else the fallbacks
HandlerFor(u) ==
    IF IsCommand(u, "/start") THEN "start"
    ELSE IF IsCommand(u, "/convert") THEN "convert_command"
    ELSE IF conv[u.key] = CHOOSING_LANGUAGE
         THEN IF IsLanguageChoice(u) THEN "language_callback"
              ELSE IF IsCommand(u, "/cancel") THEN "cancel" ELSE "none"
    ELSE IF conv[u.key] = UPLOADING_VIDEO
         THEN IF IsUpload(u) THEN "handle_video"
              ELSE IF IsCommand(u, "/cancel") THEN "cancel" ELSE "none"
    ELSE "none"

MaxQueue == 1
MaxUploads == 2

NoFrame ==
    [pc |-> "idle", key |-> <<"-", "-">>, id |-> 0, srt_path |-> FALSE,
     language |-> "", segments |-> 0, sent |-> FALSE, error_shown |-> FALSE,
     exception |-> ""]

\* no handler call has ended in the latest step
NotEnded ==
    [handler |-> "", key |-> <<"-", "-">>, data |-> "", was |-> "",
     id |-> 0, failed |-> FALSE, raised |-> FALSE,
     sent |-> FALSE, error_shown |-> FALSE,
     language |-> "", srt_path |-> FALSE, segments |-> 0, exception |-> ""]

\* the call of handler name for update u has returned
Handled(name, u) ==
    [NotEnded EXCEPT !.handler = name, !.key = u.key, !.data = u.data,
                     !.was = conv[u.key]]

video_path(id) == [id |-> id, kind |-> "video"]
srt_path(id)   == [id |-> id, kind |-> "srt"]

Init ==
    /\ conv = [k \in ConvKeys |-> END]
    /\ user_sessions = [u \in Users |-> Absent]
    /\ files = {}
    /\ queue = <<>>
    /\ hv = NoFrame
    /\ nextId = 0
    /\ ended = NotEnded
    /\ phase = "bot"
    /\ fmtIn = NoValue /\ fmtOut = NoValue
    /\ txtIn = NoValue /\ txtOut = NoValue
    /\ segIn = NoValue /\ segOut = NoValue
    /\ srtIn = NoValue /\ srtFile = NoValue /\ srtRet = NoValue

\* uploads waiting in the queue that handle_video would start processing
PendingUploads ==
    Cardinality({i \in 1..Len(queue) : IsUpload(queue[i]) /\ Acceptable(queue[i].file)})

\* run_polling: the updater puts an update on the update queue
Receive(u) ==
    /\ Len(queue) < MaxQueue
    /\ (IsUpload(u) /\ Acceptable(u.file)) => nextId + PendingUploads < MaxUploads
    /\ queue' = Append(queue, u)
    /\ UNCHANGED <<conv, user_sessions, files, hv, nextId>>
    /\ ended' = NotEnded
    /\ UNCHANGED fvars

\* the application takes the next update only when the handler of the one
\* before has returned: build() leaves concurrent_updates off, and the
\* handlers are added blocking
Dispatching(name) ==
    /\ hv.pc = "idle"
    /\ queue # <<>>
    /\ HandlerFor(Head(queue)) = name
    /\ queue' = Tail(queue)

convert_command ==
    /\ Dispatching("convert_command")
    /\ conv' = [conv EXCEPT ![Head(queue).key] = CHOOSING_LANGUAGE]
    /\ UNCHANGED <<user_sessions, files, hv, nextId>>
    /\ ended' = Handled("convert_command", Head(queue))
    /\ UNCHANGED fvars

language_callback ==
    /\ Dispatching("language_callback")
    /\ LET u == Head(queue)
       IN  /\ user_sessions' =
                [user_sessions EXCEPT ![UserOf(u.key)] = LanguageOf(u.data)]
           /\ conv' = [conv EXCEPT ![u.key] = UPLOADING_VIDEO]
    /\ UNCHANGED <<files, hv, nextId>>
    /\ ended' = Handled("language_callback", Head(queue))
    /\ UNCHANGED fvars

\* cancel without lines 304-305
cancel_keeps_session ==
    /\ Dispatching("cancel")
    /\ conv' = [conv EXCEPT ![Head(queue).key] = END]
    /\ UNCHANGED <<user_sessions, files, hv, nextId>>
    /\ ended' = Handled("cancel", Head(queue))
    /\ UNCHANGED fvars

cancel ==
    /\ Dispatching("cancel")
    /\ LET u == Head(queue)
       IN  /\ user_sessions' = [user_sessions EXCEPT ![UserOf(u.key)] = Absent]
           /\ conv' = [conv EXCEPT ![u.key] = END]
    /\ UNCHANGED <<files, hv, nextId>>
    /\ ended' = Handled("cancel", Head(queue))
    /\ UNCHANGED fvars

\* /start and /help
start ==
    /\ Dispatching("start")
    /\ UNCHANGED <<conv, user_sessions, files, hv, nextId>>
    /\ ended' = Handled("start", Head(queue))
    /\ UNCHANGED fvars

\* an update no handler takes
Unhandled ==
    /\ Dispatching("none")
    /\ UNCHANGED <<conv, user_sessions, files, hv, nextId>>
    /\ ended' = Handled("none", Head(queue))
    /\ UNCHANGED fvars

\* handle_video without the test of lines 164-168
handle_video_no_session_check ==
    /\ Dispatching("handle_video")
    /\ LET u    == Head(queue)
           file == u.file
       IN  IF file.media = "none"
              \/ file.file_size > FileSizeLimit
              \/ ~allowed_file(FileNameOf(file))
           THEN /\ ended' = Handled("handle_video", u)
                /\ UNCHANGED <<conv, hv, nextId>>
           ELSE /\ nextId' = nextId + 1
                /\ hv' = [NoFrame EXCEPT !.pc = "download", !.key = u.key,
                                         !.id = nextId + 1]
                /\ ended' = NotEnded
                /\ UNCHANGED conv
    /\ UNCHANGED <<user_sessions, files>>
    /\ UNCHANGED fvars

\* handle_video returning END where it returns UPLOADING_VIDEO
handle_video_reject_ends ==
    /\ Dispatching("handle_video")
    /\ LET u    == Head(queue)
           file == u.file
       IN  IF user_sessions[UserOf(u.key)] = Absent
              \/ file.media = "none"
              \/ file.file_size > FileSizeLimit
              \/ ~allowed_file(FileNameOf(file))
           THEN /\ conv' = [conv EXCEPT ![u.key] = END]
                /\ ended' = Handled("handle_video", u)
                /\ UNCHANGED <<hv, nextId>>
           ELSE /\ nextId' = nextId + 1
                /\ hv' = [NoFrame EXCEPT !.pc = "download", !.key = u.key,
                                         !.id = nextId + 1]
                /\ ended' = NotEnded
                /\ UNCHANGED conv
    /\ UNCHANGED <<user_sessions, files>>
    /\ UNCHANGED fvars

\* handle_video up to the try statement (lines 159-223)
handle_video ==
    /\ Dispatching("handle_video")
    /\ LET u    == Head(queue)
           file == u.file
       IN  IF user_sessions[UserOf(u.key)] = Absent
           THEN /\ conv' = [conv EXCEPT ![u.key] = END]
                /\ ended' = Handled("handle_video", u)
                /\ UNCHANGED <<hv, nextId>>
           ELSE IF file.media = "none"
                   \/ file.file_size > FileSizeLimit
                   \/ ~allowed_file(FileNameOf(file))
           THEN /\ ended' = Handled("handle_video", u)
                /\ UNCHANGED <<conv, hv, nextId>>
           ELSE /\ nextId' = nextId + 1
                /\ hv' = [NoFrame EXCEPT !.pc = "download", !.key = u.key,
                                         !.id = nextId + 1]
                /\ ended' = NotEnded
                /\ UNCHANGED conv
    /\ UNCHANGED <<user_sessions, files>>
    /\ UNCHANGED fvars

\* the handler returns ConversationHandler.END
ReturnEnd(frame, failed) ==
    /\ hv' = NoFrame
    /\ conv' = [conv EXCEPT ![frame.key] = END]
    /\ ended' = [NotEnded EXCEPT !.handler = "handle_video", !.key = frame.key,
                                 !.was = conv[frame.key], !.id = frame.id,
                                 !.failed = failed, !.sent = frame.sent,
                                 !.error_shown = frame.error_shown,
                                 !.language = frame.language,
                                 !.srt_path = frame.srt_path,
                                 !.segments = frame.segments,
                                 !.exception = frame.exception]

\* an exception leaves the handler: the conversation keeps its state
Raise(frame) ==
    /\ hv' = NoFrame
    /\ ended' = [NotEnded EXCEPT !.handler = "handle_video", !.key = frame.key,
                                 !.was = conv[frame.key], !.id = frame.id,
                                 !.failed = TRUE, !.raised = TRUE,
                                 !.sent = frame.sent,
                                 !.error_shown = frame.error_shown,
                                 !.language = frame.language,
                                 !.srt_path = frame.srt_path,
                                 !.segments = frame.segments,
                                 !.exception = frame.exception]
    /\ UNCHANGED conv

\* lines 226-228: get_file and download_to_drive
Download ==
    /\ hv.pc = "download"
    /\ \/ /\ files' = files \cup {video_path(hv.id)}
          /\ hv' = [hv EXCEPT !.pc = "announce"]
       \/ /\ files' \in {files, files \cup {video_path(hv.id)}}
          /\ hv' = [hv EXCEPT !.pc = "except", !.exception = "Exception"]
    /\ UNCHANGED <<conv, user_sessions, queue, nextId>>
    /\ ended' = NotEnded
    /\ UNCHANGED fvars

\* lines 231-235: the progress message, the language, the thread started
Announce ==
    /\ hv.pc = "announce"
    /\ \/ hv' = [hv EXCEPT !.pc = "transcribe",
                           !.language = user_sessions[UserOf(hv.key)]]
       \/ hv' = [hv EXCEPT !.pc = "except", !.exception = "Exception"]
    /\ UNCHANGED <<conv, user_sessions, files, queue, nextId>>
    /\ ended' = NotEnded
    /\ UNCHANGED fvars

\* lines 235-241: transcribe_video ends in its thread; srt_path is assigned
Transcribed ==
    /\ hv.pc = "transcribe"
    /\ \/ \E n \in 0..MaxSegs :
             hv' = [hv EXCEPT !.pc = "create_srt", !.segments = n,
                              !.srt_path = TRUE]
       \/ hv' = [hv EXCEPT !.pc = "except", !.exception = "Exception"]
    /\ UNCHANGED <<conv, user_sessions, files, queue, nextId>>
    /\ ended' = NotEnded
    /\ UNCHANGED fvars

\* lines 243-247: create_srt in its thread, then the video file removed
SrtWritten ==
    /\ hv.pc = "create_srt"
    /\ \/ /\ files' = (files \cup {srt_path(hv.id)}) \ {video_path(hv.id)}
          /\ hv' = [hv EXCEPT !.pc = "statistics"]
       \/ /\ files' \in {files, files \cup {srt_path(hv.id)}}
          /\ hv' = [hv EXCEPT !.pc = "except", !.exception = "Exception"]
    /\ UNCHANGED <<conv, user_sessions, queue, nextId>>
    /\ ended' = NotEnded
    /\ UNCHANGED fvars

\* lines 249-262: the statistics message; total_duration / subtitle_count
\* raises ZeroDivisionError when there is no segment
Statistics ==
    /\ hv.pc = "statistics"
    /\ IF hv.segments = 0
       THEN hv' = [hv EXCEPT !.pc = "except", !.exception = "ZeroDivisionError"]
       ELSE \/ hv' = [hv EXCEPT !.pc = "send"]
            \/ hv' = [hv EXCEPT !.pc = "except", !.exception = "Exception"]
    /\ UNCHANGED <<conv, user_sessions, files, queue, nextId>>
    /\ ended' = NotEnded
    /\ UNCHANGED fvars

\* lines 265-270: reply_document
SendDocument ==
    /\ hv.pc = "send"
    /\ \/ hv' = [hv EXCEPT !.pc = "finish", !.sent = TRUE]
       \/ hv' = [hv EXCEPT !.pc = "except", !.exception = "Exception"]
    /\ UNCHANGED <<conv, user_sessions, files, queue, nextId>>
    /\ ended' = NotEnded
    /\ UNCHANGED fvars

\* lines 272-280 and 299: the SRT file and the session removed, the progress
\* message deleted
Finish ==
    /\ hv.pc = "finish"
    /\ files' = files \ {srt_path(hv.id)}
    /\ user_sessions' = [user_sessions EXCEPT ![UserOf(hv.key)] = Absent]
    /\ \/ ReturnEnd(hv, FALSE)
       \/ /\ hv' = [hv EXCEPT !.pc = "except", !.exception = "Exception"]
          /\ ended' = NotEnded
          /\ UNCHANGED conv
    /\ UNCHANGED <<queue, nextId>>
    /\ UNCHANGED fvars

\* lines 282-299: the except clause. The list [video_path, srt_path] reads
\* srt_path, which is unbound when the failure came before line 241
Except ==
    /\ hv.pc = "except"
    /\ \/ /\ Raise(hv)
          /\ UNCHANGED <<files, user_sessions>>
       \/ /\ ~hv.srt_path
          /\ Raise([hv EXCEPT !.error_shown = TRUE])
          /\ UNCHANGED <<files, user_sessions>>
       \/ /\ hv.srt_path
          /\ files' = files \ {video_path(hv.id), srt_path(hv.id)}
          /\ user_sessions' = [user_sessions EXCEPT ![UserOf(hv.key)] = Absent]
          /\ ReturnEnd([hv EXCEPT !.error_shown = TRUE], TRUE)
    /\ UNCHANGED <<queue, nextId>>
    /\ UNCHANGED fvars

Next ==
    \/ \E u \in Updates : Receive(u)
    \/ convert_command
    \/ language_callback
    \/ cancel
    \/ start
    \/ Unhandled
    \/ handle_video
    \/ Download
    \/ Announce
    \/ Transcribed
    \/ SrtWritten
    \/ Statistics
    \/ SendDocument
    \/ Finish
    \/ Except

Spec == Init /\ [][Next]_vars

----------------------------------------------------------------------------
(* Reading a timestamp string back: H..H:MM:SS,mmm *)

RECURSIVE StrToNat(_)
StrToNat(str) ==
    IF str = <<>> THEN 0
    ELSE LET last == str[Len(str)]
             d    == CHOOSE i \in 0..9 : DigitChars[i + 1] = last
         IN  10 * StrToNat(SubSeq(str, 1, Len(str) - 1)) + d

IsDigits(str) == \A i \in 1..Len(str) : \E d \in 1..10 : DigitChars[d] = str[i]

WellFormedStamp(str) ==
    LET n == Len(str)
    IN  /\ n >= 12
        /\ str[n - 3] = "," /\ str[n - 6] = ":" /\ str[n - 9] = ":"
        /\ IsDigits(SubSeq(str, 1, n - 10))
        /\ IsDigits(SubSeq(str, n - 8, n - 7))
        /\ IsDigits(SubSeq(str, n - 5, n - 4))
        /\ IsDigits(SubSeq(str, n - 2, n))

HoursField(str)   == SubSeq(str, 1, Len(str) - 10)
MinutesField(str) == SubSeq(str, Len(str) - 8, Len(str) - 7)
SecondsField(str) == SubSeq(str, Len(str) - 5, Len(str) - 4)
MillisField(str)  == SubSeq(str, Len(str) - 2, Len(str))

Returned == phase = "returned"

\* C1 (as claimed): the hours field is floor(t / 3600), without cap or wrap,
\* so that 360000 seconds read "100:00:00,000".
C1_HoursNotWrapped ==
    Returned =>
        /\ WellFormedStamp(fmtOut)
        /\ StrToNat(HoursField(fmtOut)) = fmtIn.s \div 3600
        /\ (fmtIn = [s |-> 360000, f |-> 0] =>
               fmtOut = <<"1","0","0",":","0","0",":","0","0",",","0","0","0">>)

\* C2 (as claimed): minutes, seconds and milliseconds are those of t itself,
\* the milliseconds being the fraction of t times 1000, truncated.
C2_FieldsOfTruncatedInput ==
    Returned =>
        /\ WellFormedStamp(fmtOut)
        /\ StrToNat(MinutesField(fmtOut)) = (fmtIn.s % 3600) \div 60
        /\ StrToNat(SecondsField(fmtOut)) = fmtIn.s % 60
        /\ StrToNat(MillisField(fmtOut)) = fmtIn.f \div (FracUnits \div 1000)

\* t to the nearest microsecond, ties to even, as a count of microseconds
\* past the whole second  t.s  (1000000 when the fraction rounds up to 1)
NearestMicro(t) ==
    LET lo == t.f \div 10
        r  == t.f % 10
    IN  IF r < 5 THEN lo
        ELSE IF r > 5 THEN lo + 1
        ELSE IF lo % 2 = 0 THEN lo ELSE lo + 1

\* C2 (amended): with t' = t taken to the nearest microsecond (ties to
\* even), minutes = (whole seconds of t' mod 3600) div 60, seconds = whole
\* seconds of t' mod 60, milliseconds = the microseconds of t' div 1000
\* (truncated); two, two and three digits; ranges 0..59, 0..59, 0..999.
C2_FieldsOfMicrosecondInput ==
    Returned =>
        LET us    == NearestMicro(fmtIn)
            whole == IF us = 1000000 THEN fmtIn.s + 1 ELSE fmtIn.s
            frac  == IF us = 1000000 THEN 0 ELSE us
            mm    == StrToNat(MinutesField(fmtOut))
            ss    == StrToNat(SecondsField(fmtOut))
            ms    == StrToNat(MillisField(fmtOut))
        IN  /\ WellFormedStamp(fmtOut)
            /\ mm = (whole % 3600) \div 60
            /\ ss = whole % 60
            /\ ms = frac \div 1000
            /\ mm \in 0..59 /\ ss \in 0..59 /\ ms \in 0..999
            /\ (fmtIn = [s |-> 0, f |-> 0] =>
                   fmtOut = <<"0","0",":","0","0",":","0","0",",","0","0","0">>)
            /\ (fmtIn = [s |-> 3661, f |-> 2500000] =>
                   fmtOut = <<"0","1",":","0","1",":","0","1",",","2","5","0">>)
            /\ (fmtIn = [s |-> 59, f |-> 9990000] =>
                   fmtOut = <<"0","0",":","0","0",":","5","9",",","9","9","9">>)

\* C2 witness: 59.9999996 s has been formatted, and reads one minute
C2_Witness ==
    /\ Returned
    /\ fmtIn = [s |-> 59, f |-> 9999996]
    /\ fmtOut = <<"0","0",":","0","1",":","0","0",",","0","0","0">>

----------------------------------------------------------------------------
(* The timing refinement *)

Refined == segOut.some

ValidTiming(segment) ==
    TLeq(Zero, segment.start) /\ TLess(segment.start, segment.end)

C4_RefineIdentityOnValid ==
    Refined =>
        \A k \in 1..Len(segIn) :
            ValidTiming(segIn[k]) =>
                /\ k <= Len(segOut.val)
                /\ segOut.val[k].start = segIn[k].start
                /\ segOut.val[k].end = segIn[k].end
                /\ segOut.val[k].text = segIn[k].text

\* C4 witness: a valid segment of half a second, next to an invalid one,
\* has been refined
C4_Witness ==
    /\ Refined
    /\ Len(segIn) = 2
    /\ segIn[1].start = Zero /\ segIn[1].end = [s |-> 0, f |-> 5000000]
    /\ segOut.val[1] = segIn[1]
    /\ ~ValidTiming(segIn[2])

----------------------------------------------------------------------------
(* Reading the SRT file back *)

RECURSIVE IndexOf(_, _, _)
\* the first position >= i of character c in str, or Len(str) + 1
IndexOf(str, c, i) ==
    IF i > Len(str) THEN Len(str) + 1
    ELSE IF str[i] = c THEN i ELSE IndexOf(str, c, i + 1)

RECURSIVE LinesOf(_)
\* the lines of a text in which every line ends with a line feed
LinesOf(str) ==
    IF str = <<>> THEN <<>>
    ELSE LET i == IndexOf(str, "\n", 1)
         IN  <<SubSeq(str, 1, i - 1)>> \o LinesOf(SubSeq(str, i + 1, Len(str)))

\* of a line "a --> b": a and b
StartCode(line) == SubSeq(line, 1, IndexOf(line, " ", 1) - 1)
EndCode(line) ==
    LET i == IndexOf(line, ">", 1) IN SubSeq(line, i + 2, Len(line))

Written == phase = "written"

TimingLine(k) == LinesOf(srtFile)[4 * k - 2]

\* C5 (as claimed): create_srt normalises each segment it is handed before
\* formatting it: every record carries the timestamps of the normalised
\* start (>= 0) and of the normalised end (> start).
C5_CreateSrtNormalises ==
    Written =>
        /\ Len(LinesOf(srtFile)) = 4 * Len(srtIn.val)
        /\ \A k \in 1..Len(srtIn.val) :
              LET n == Refine(srtIn.val[k])
              IN  /\ ValidTiming(n)
                  /\ StartCode(TimingLine(k)) = time_format(n.start)
                  /\ EndCode(TimingLine(k)) = time_format(n.end)

\* C5 (amended): create_srt formats start and end as handed in; the segments
\* handle_video hands it are those transcribe_video returned, which are
\* already normalised, so each record then carries the timestamp of a start
\* >= 0 and of an end > start.
C5_RecordsOfTranscriptionValid ==
    Written =>
        /\ Len(LinesOf(srtFile)) = 4 * Len(srtIn.val)
        /\ \A k \in 1..Len(srtIn.val) :
              /\ StartCode(TimingLine(k)) = time_format(srtIn.val[k].start)
              /\ EndCode(TimingLine(k)) = time_format(srtIn.val[k].end)
              /\ (Refined => /\ srtIn.val[k] = Refine(segIn[k])
                             /\ ValidTiming(srtIn.val[k]))

\* C5 witness: a transcription with a negative start and end <= start has
\* been refined and written, the record reading 00:00:00,000 --> 00:00:01,000
C5_Witness ==
    /\ Written /\ Refined
    /\ Len(segIn) >= 1
    /\ segIn[1].start = [s |-> -2, f |-> 5000000]
    /\ segIn[1].end = [s |-> -2, f |-> 5000000]
    /\ TimingLine(1) =
         <<"0","0",":","0","0",":","0","0",",","0","0","0">> \o Arrow \o
         <<"0","0",":","0","0",":","0","1",",","0","0","0">>

\* C6: N segments give exactly N records in input order, the k-th being the
\* four lines k, "start --> end", cleaned text, empty line; no segment gives
\* the empty document.
C6_RecordsNumberedInOrder ==
    Written =>
        LET lines == LinesOf(srtFile)
            N     == Len(srtIn.val)
        IN  /\ Len(lines) = 4 * N
            /\ (srtFile # <<>> => srtFile[Len(srtFile)] = "\n")
            /\ \A k \in 1..N :
                  /\ IsDigits(lines[4 * k - 3])
                  /\ StrToNat(lines[4 * k - 3]) = k
                  /\ lines[4 * k - 2] = time_format(srtIn.val[k].start) \o Arrow
                                           \o time_format(srtIn.val[k].end)
                  /\ lines[4 * k - 1] = clean_text(srtIn.val[k].text)
                  /\ lines[4 * k] = <<>>
            /\ (N = 0 => srtFile = <<>>)

\* C6 witness: two segments have been written as records 1 and 2
C6_Witness ==
    /\ Written
    /\ Len(srtIn.val) = 2
    /\ srtIn.val[1].text # srtIn.val[2].text
    /\ LinesOf(srtFile)[1] = <<"1">>
    /\ LinesOf(srtFile)[5] = <<"2">>
    /\ LinesOf(srtFile)[7] = clean_text(srtIn.val[2].text)

----------------------------------------------------------------------------
(* The text clean-up, read run by run *)

RECURSIVE RunLength(_, _)
\* the number of "." at the front of str, counted from n
RunLength(str, n) ==
    IF str # <<>> /\ Head(str) = "." THEN RunLength(Tail(str), n + 1) ELSE n

RECURSIVE Repeat(_, _)
Repeat(c, n) == IF n = 0 THEN <<>> ELSE <<c>> \o Repeat(c, n - 1)

RECURSIVE ByRuns(_)
\* each maximal run of k periods: k div 3 ellipses for its leftmost triples,
\* then one period if one or two periods are left over
ByRuns(str) ==
    IF str = <<>> THEN <<>>
    ELSE IF Head(str) = "."
         THEN LET k == RunLength(str, 0)
              IN  Repeat(Ellipsis, k \div 3)
                    \o (IF k % 3 = 0 THEN <<>> ELSE <<".">>)
                    \o ByRuns(SubSeq(str, k + 1, Len(str)))
         ELSE <<Head(str)>> \o ByRuns(Tail(str))

\* str without its leading and trailing white space, by position
Trimmed(str) ==
    LET keep == {i \in 1..Len(str) : ~IsSpace(str[i])}
    IN  IF keep = {} THEN <<>>
        ELSE SubSeq(str, CHOOSE i \in keep : \A j \in keep : i <= j,
                         CHOOSE i \in keep : \A j \in keep : i >= j)

\* C7: the clean-up is: trim, then every non-overlapping "..." from the
\* left becomes one ellipsis, then every remaining ".." becomes one period
\* ("Hello...world.." gives "Hello<ellipsis>world.").
C7_TrimThenTripleThenDouble ==
    Returned =>
        /\ txtOut = ByRuns(Trimmed(txtIn))
        /\ (txtIn = HelloWorld =>
              txtOut = <<"H","e","l","l","o",Ellipsis,"w","o","r","l","d",".">>)

\* C7 witness: " ...." (white space, four periods) has been cleaned to an
\* ellipsis and one period
C7_Witness ==
    /\ Returned
    /\ txtIn = <<" ", ".", ".", ".", ".">>
    /\ txtOut = <<Ellipsis, ".">>

----------------------------------------------------------------------------
(* The handlers *)

\* C8 (as claimed): once handle_video has reported a failure of the
\* processing of an accepted upload, neither the downloaded video nor the
\* SRT file of that request is left in the upload folder.
C8_NoArtifactAfterFailure ==
    (ended.handler = "handle_video" /\ ended.failed /\ ended.error_shown) =>
        \A f \in files : f.id # ended.id

\* C9: an update /cancel taken from the queue while its conversation is in
\* CHOOSING_LANGUAGE or UPLOADING_VIDEO is handled by cancel, which ends the
\* conversation and leaves the user without entry in user_sessions.
C9_CancelEndsConversation ==
    (ended.data = "/cancel" /\ ended.was \in {CHOOSING_LANGUAGE, UPLOADING_VIDEO}) =>
        /\ ended.handler = "cancel"
        /\ conv[ended.key] = END
        /\ user_sessions[UserOf(ended.key)] = Absent

\* C9 witness: /cancel has just been handled in a conversation that had
\* chosen a language and was waiting for the upload
C9_Witness ==
    /\ ended.handler = "cancel"
    /\ ended.was = UPLOADING_VIDEO
    /\ conv[ended.key] = END
    /\ \E k \in ConvKeys : conv[k] = CHOOSING_LANGUAGE

\* C10 (as claimed): while one user's handle_video waits for transcribe_video,
\* a /convert of another user at the head of the queue can be handled.
C10_ConvertNotBlockedByTranscription ==
    ( /\ hv.pc = "transcribe"
      /\ queue # <<>>
      /\ IsCommand(Head(queue), "/convert")
      /\ UserOf(Head(queue).key) # UserOf(hv.key) )
    => ENABLED convert_command

----------------------------------------------------------------------------
(* create_srt and the file system *)

\* C11 (as claimed): create_srt performs no I/O: it returns the assembled
\* document as its value, and no file has been created or written.
C11_ReturnsDocumentWithoutIO ==
    Written =>
        /\ srtRet = create_srt(srtIn.val)
        /\ srtFile = NoValue

\* C11 (amended): create_srt opens output_path for writing (the file exists
\* from then on, also for no segment), writes the records to it, and returns
\* the path it was given, not the document.
C11_WritesFileReturnsPath ==
    Written =>
        /\ srtFile # NoValue
        /\ srtFile = WriteRecords(srtIn.val, 1)
        /\ srtRet = output_path
        /\ srtRet # srtFile

\* C11 witness: one segment has been written to the file, and the path
\* returned
C11_Witness ==
    /\ Written
    /\ Len(srtIn.val) = 1
    /\ Len(srtFile) > Len(output_path)
    /\ srtRet = output_path

----------------------------------------------------------------------------
(* The end of a handle_video call that started processing *)

\* the call of handle_video that has just ended had passed the validation
\* and entered the try statement
ProcessingEnded == ended.handler = "handle_video" /\ ended.id # 0

\* C12 (as claimed): every handle_video call that started processing ends
\* with its conversation in END and its user without entry in user_sessions,
\* whether the processing succeeded or failed at any step.
C12_ProcessingEndsIdle ==
    ProcessingEnded =>
        /\ conv[ended.key] = END
        /\ user_sessions[UserOf(ended.key)] = Absent

----------------------------------------------------------------------------
(* A transcription without segments *)

\* C13 (as claimed): when transcribe_video returned no segment and no call
\* to Telegram or to the file system failed, handle_video ends on the
\* success path: the empty SRT document has been sent and no error message
\* shown.
C13_EmptyTranscriptionSucceeds ==
    ( /\ ProcessingEnded
      /\ ended.srt_path /\ ended.segments = 0
      /\ ended.exception # "Exception" )
    => /\ ended.sent
       /\ ~ended.error_shown
       /\ ~ended.failed

----------------------------------------------------------------------------
(* When the refinement changes the end of a segment *)

\* C14 (as claimed): for every input segment with end > start, whatever the
\* signs of start and end, the refined end is the input end.
C14_EndKeptWhenEndAfterStart ==
    Refined =>
        \A k \in 1..Len(segIn) :
            TLess(segIn[k].start, segIn[k].end) =>
                segOut.val[k].end = segIn[k].end

\* the start after the clamp of line 85
ClampedStart(segment) ==
    IF TLess(segment.start, Zero) THEN Zero ELSE segment.start

\* C14 (amended): the end is compared with the start after its clamp to 0:
\* it is kept exactly when end > max(start, 0), and is max(start, 0) + 1
\* otherwise, which includes start < end <= 0.
C14_EndKeptWhenAfterClampedStart ==
    Refined =>
        \A k \in 1..Len(segIn) :
            LET c == ClampedStart(segIn[k])
            IN  /\ segOut.val[k].start = c
                /\ IF TLess(c, segIn[k].end)
                   THEN segOut.val[k].end = segIn[k].end
                   ELSE segOut.val[k].end = PlusOne(c)

\* C14 witness: -1.5 s to 0 s (end > start, end not after the clamped
\* start) has become 0 s to 1 s, and -1.5 s to 0.5 s has kept its end
C14_Witness ==
    /\ Refined
    /\ Len(segIn) = 2
    /\ segIn[1].start = [s |-> -2, f |-> 5000000] /\ segIn[1].end = Zero
    /\ segOut.val[1].start = Zero /\ segOut.val[1].end = [s |-> 1, f |-> 0]
    /\ segIn[2].start = [s |-> -2, f |-> 5000000]
    /\ segIn[2].end = [s |-> 0, f |-> 5000000]
    /\ segOut.val[2].start = Zero /\ segOut.val[2].end = [s |-> 0, f |-> 5000000]

----------------------------------------------------------------------------
(* Processing only after a language choice *)

\* the upload at the head of the queue is handed to handle_video in this step
UploadHandled == Dispatching("handle_video")

\* C15: while handle_video downloads or transcribes, its conversation is in
\* UPLOADING_VIDEO and user_sessions holds a language in {en, km} for its
\* user, the language handed to transcribe_video; and an upload handled
\* while the user has no entry starts no processing, creates no file and
\* ends the conversation.
C15_ProcessingOnlyAfterLanguageChoice ==
    /\ [](hv.pc \in {"download", "announce", "transcribe"} =>
             /\ conv[hv.key] = UPLOADING_VIDEO
             /\ user_sessions[UserOf(hv.key)] \in LANGUAGES
             /\ (hv.pc = "transcribe" =>
                    hv.language = user_sessions[UserOf(hv.key)]))
    /\ [][ (UploadHandled /\ user_sessions[UserOf(Head(queue).key)] = Absent) =>
              /\ hv' = NoFrame
              /\ nextId' = nextId
              /\ files' = files
              /\ conv'[Head(queue).key] = END ]_vars

\* C15 witness: an upload has just been handled in a conversation waiting
\* for it whose user had no entry in user_sessions (removed by a /cancel in
\* the user's other chat, or by a conversion finished there); the
\* conversation has ended, while another upload had been processed before
C15_Witness ==
    /\ ended.handler = "handle_video"
    /\ ended.id = 0
    /\ ended.was = UPLOADING_VIDEO
    /\ conv[ended.key] = END
    /\ user_sessions[UserOf(ended.key)] = Absent
    /\ nextId >= 1
    /\ files = {}

----------------------------------------------------------------------------
(* Two conversations of one user *)

\* this step belongs to a conversation other than k: a handler takes an
\* update of another conversation, or handle_video goes on for another one
OtherConversationActs(k) ==
    \/ hv.pc # "idle" /\ hv.key # k
    \/ /\ hv.pc = "idle"
       /\ queue # <<>>
       /\ queue' = Tail(queue)
       /\ Head(queue).key # k

\* C16 (as claimed): while a conversation waits for its upload, no step of
\* another conversation (a language selected, a /cancel, a conversion
\* finished or failed there) changes or removes the language that its
\* user's upload will be transcribed in.
C16_LanguageOfConversationIsolated ==
    [][ \A k \in ConvKeys :
          (conv[k] = UPLOADING_VIDEO /\ OtherConversationActs(k)) =>
              user_sessions'[UserOf(k)] = user_sessions[UserOf(k)] ]_vars

----------------------------------------------------------------------------
(* user_sessions against the conversation states *)

KeysOf(u) == {k \in ConvKeys : UserOf(k) = u}

\* C17 (as claimed): whenever all conversations of a user are in END or in
\* CHOOSING_LANGUAGE, user_sessions holds no entry for that user.
C17_NoEntryUnlessUploading ==
    \A u \in Users :
        (\A k \in KeysOf(u) : conv[k] \in {END, CHOOSING_LANGUAGE}) =>
            user_sessions[u] = Absent

\* C17 (amended): an entry of user_sessions is a language of {en, km}, and
\* its user has a conversation that has not ended: one in UPLOADING_VIDEO
\* (processing included), or one in CHOOSING_LANGUAGE, where /convert
\* re-entered from UPLOADING_VIDEO leaves the entry of the earlier choice;
\* whenever all conversations of a user are in END there is no entry.
C17_EntryOnlyWhileConversationOpen ==
    \A u \in Users :
        user_sessions[u] # Absent =>
            /\ user_sessions[u] \in LANGUAGES
            /\ \E k \in KeysOf(u) : conv[k] \in {CHOOSING_LANGUAGE, UPLOADING_VIDEO}

\* C17 witness: /convert has just been handled again in a conversation that
\* was waiting for its upload; the user's entry is still there, and none of
\* the user's conversations is in UPLOADING_VIDEO
C17_Witness ==
    /\ ended.handler = "convert_command"
    /\ ended.was = UPLOADING_VIDEO
    /\ conv[ended.key] = CHOOSING_LANGUAGE
    /\ user_sessions[UserOf(ended.key)] \in LANGUAGES
    /\ \A k \in KeysOf(UserOf(ended.key)) : conv[k] \in {END, CHOOSING_LANGUAGE}

----------------------------------------------------------------------------
(* Rejected uploads *)

\* handle_video is called in this step, by a user with a language chosen,
\* for a file over 50 MB or with an extension outside the allowed set
UploadRejected ==
    /\ UploadHandled
    /\ user_sessions[UserOf(Head(queue).key)] # Absent
    /\ ~Acceptable(Head(queue).file)

\* a message with file f in conversation k
UploadOf(k, f) == [type |-> "message", key |-> k, data |-> "", file |-> f]

\* C18: a rejected upload leaves the conversation in UPLOADING_VIDEO and
\* the user's entry and every other conversation as they were, starts no
\* processing and creates no file; an acceptable upload sent next in the
\* same conversation is handed to handle_video, with the language unchanged.
C18_RejectedUploadChangesNothing ==
    [][ UploadRejected =>
          \E k \in ConvKeys :
              /\ k = Head(queue).key
              /\ conv' = conv
              /\ conv'[k] = UPLOADING_VIDEO
              /\ user_sessions' = user_sessions
              /\ user_sessions'[UserOf(k)] \in LANGUAGES
              /\ files' = files
              /\ nextId' = nextId
              /\ hv' = NoFrame
              /\ \A f \in UploadShapes :
                    Acceptable(f) => (HandlerFor(UploadOf(k, f)) = "handle_video")' ]_vars

\* C18 witness: handle_video has just returned without processing, from a
\* conversation that is still waiting for its upload with Khmer chosen (a
\* call without session entry would have ended the conversation)
C18_Witness ==
    /\ ended.handler = "handle_video"
    /\ ended.id = 0
    /\ ended.was = UPLOADING_VIDEO
    /\ conv[ended.key] = UPLOADING_VIDEO
    /\ user_sessions[UserOf(ended.key)] = "km"
    /\ hv = NoFrame

----------------------------------------------------------------------------
(* The cleaned text *)

\* C19: the cleaned text never contains two consecutive periods and neither
\* begins nor ends with white space, whatever the input, runs of four and
\* more periods included.
C19_NoDoublePeriodNoOuterSpace ==
    Returned =>
        /\ ~Contains(txtOut, <<".", ".">>)
        /\ \A i \in 1..(Len(txtOut) - 1) : ~(txtOut[i] = "." /\ txtOut[i + 1] = ".")
        /\ (txtOut # <<>> => ~IsSpace(txtOut[1]) /\ ~IsSpace(txtOut[Len(txtOut)]))

\* C19 witness: five periods followed by a line feed have been cleaned to
\* an ellipsis and one period
C19_Witness ==
    /\ Returned
    /\ txtIn = <<".", ".", ".", ".", "\n">>
    /\ txtOut = <<Ellipsis, ".">>

====
